---- MODULE Spec2Model ----
(***************************************************************************)
(* A model of rust-s63: the permit file parser and permit index            *)
(* (src/src/permit.rs), the cell decryption engine (src/src/decrypter.rs)  *)
(* and the user-permit codec (src/src/up.rs).                              *)
(*                                                                         *)
(* Text is a sequence of ASCII codes, a byte array a sequence of numbers   *)
(* in 0..255.  The external crates are modelled by what the code relies on:*)
(* Blowfish is a keyed permutation of 8-byte blocks whose decrypt_block    *)
(* inverts encrypt_block, CRC-32 is a checksum of a byte string that every *)
(* single-byte change alters, hex is the usual base-16 text codec.  A u32  *)
(* is held as its four big-endian bytes.                                   *)
(***************************************************************************)
EXTENDS Integers, Sequences, FiniteSets, TLC

VARIABLES
    \* depad (decrypter.rs): the block handed to depad and what it returned
    data, depadRes,
    \* UserPermit (up.rs): the permit, the installation key, the call made
    \* and the results of encrypt and decrypt
    upPermit, upKey, upPc, upEnc, upStr, upDec,
    \* S63Decrypter::with_cell (decrypter.rs): what get_permit returns for the
    \* cell, the caller's stream (its bytes and position) and writer, what the
    \* environment will do to each attempt, the Keys iterator's counter, the
    \* key of the attempt under way, the attempts made, the place in
    \* with_cell and its return value
    permit, rdrData, rdrPos, wtr, io, keysI, curKey, attempts, pc, result,
    \* parse_cell_permit (permit.rs): the cell-permit field and installation
    \* key it is given, the position (0: none) at which the field was altered
    \* after it was issued, and what it returned
    cpField, cpKey, cpMut, cpRes,
    \* PermitFile, Permits, permit_from_rdr (permit.rs): the bytes of the
    \* reader and how many of them were read, the installation key, who
    \* drives the iterator ("iter": a caller of PermitFile::new and permits(),
    \* "index": permit_from_rdr), the place in that code, the MetaData, the
    \* items next() has yielded, what the last next() returned, the HashMap
    \* being built and the value returned
    pfBuf, pfPos, pfKey, pfMode, pfPc, pfMeta, pfItems, pfLast, pfIndex, pfResult,
    \* decrypt_into (decrypter.rs) called on its own: the key, the bytes of
    \* the reader, which read fails (0: none), and once it returned its
    \* result and what wtr received
    blockPass

depadVars == <<data, depadRes>>
upVars == <<upPermit, upKey, upPc, upEnc, upStr, upDec>>
cellVars == <<permit, rdrData, rdrPos, wtr, io, keysI, curKey, attempts, pc, result>>
cpVars == <<cpField, cpKey, cpMut, cpRes>>
pfVars == <<pfBuf, pfPos, pfKey, pfMode, pfPc, pfMeta, pfItems, pfLast, pfIndex, pfResult>>
passVars == <<blockPass>>
vars == <<depadVars, upVars, cellVars, cpVars, pfVars, passVars>>

(***************************************************************************)
(* Bounds of the model.                                                    *)
(***************************************************************************)
\* the last byte of a block handed to depad ranges over 0..MaxLastByte
MaxLastByte == 10
\* hardware ids and hex keys are drawn from the first UpChars characters of
\* UpAlphabetTable
UpChars == 2
\* forged permit strings carry the blocks <<a, a+d, a+2d, ...>> for
\* a in 0..RawBase (times 37) and d in 0..RawStep
RawBase == 3
RawStep == 2
\* the caller's stream holds 4 * k bytes, k in 1..MaxQuads, and stands at
\* offset 0 or 8 when with_cell is called
MaxQuads == 3
\* an I/O error can hit the r-th read of an attempt, r in 1..MaxReadErr
MaxReadErr == 1
\* an issued cell-permit field is altered at one position by replacing its
\* character with one of the first MutChars characters of MutTable
MutChars == 2
\* a permit file holds its two header lines and at most MaxLines more
MaxLines == 3
\* plaintexts of 0..MaxPlain bytes are padded, encrypted and handed to
\* decrypt_into, with 0..MaxExtra bytes appended
MaxPlain == 17
MaxExtra == 3

(***************************************************************************)
(* Bytes, text and the hex crate.                                          *)
(***************************************************************************)
\* returns true if c is a valid hexadecimal character else false
is_hex(c) ==
    \/ (c >= 48 /\ c <= 57)
    \/ (c >= 97 /\ c <= 102)
    \/ (c >= 65 /\ c <= 70)

\* s.chars().all(is_hex)
all_hex(s) == \A i \in 1..Len(s) : is_hex(s[i])

HexDigitUpper(n) == IF n < 10 THEN 48 + n ELSE 55 + n

HexVal(c) ==
    IF c >= 48 /\ c <= 57 THEN c - 48
    ELSE IF c >= 97 /\ c <= 102 THEN c - 87
    ELSE c - 55

\* hex::encode_upper: two upper-case digits per byte, high nibble first
encode_upper(bytes) ==
    [i \in 1..(2 * Len(bytes)) |->
        LET b == bytes[(i + 1) \div 2]
        IN  HexDigitUpper(IF i % 2 = 1 THEN b \div 16 ELSE b % 16)]

\* hex::decode: an odd length or a non-hex character is an error; both
\* cases of a digit are accepted
hex_decode(s) ==
    IF Len(s) % 2 # 0 \/ ~all_hex(s)
    THEN [ok |-> FALSE, bytes |-> <<>>]
    ELSE [ok |-> TRUE,
          bytes |-> [i \in 1..(Len(s) \div 2) |->
                        HexVal(s[2 * i - 1]) * 16 + HexVal(s[2 * i])]]

(***************************************************************************)
(* crypto::blowfish: a three-round Feistel network over the two 4-byte     *)
(* halves of a block, keyed by the whole key.                              *)
(***************************************************************************)
RoundKey(key, r, i) == (key[((i + r) % Len(key)) + 1] * 31 + 17 * r + i) % 256

FeistelF(key, r, h) ==
    [i \in 1..4 |-> (h[i] * 5 + h[(i % 4) + 1] + RoundKey(key, r, i)) % 256]

EncRound(key, r, b) ==
    LET L == SubSeq(b, 1, 4)
        R == SubSeq(b, 5, 8)
        f == FeistelF(key, r, R)
    IN  R \o [i \in 1..4 |-> (L[i] + f[i]) % 256]

DecRound(key, r, b) ==
    LET L == SubSeq(b, 1, 4)
        R == SubSeq(b, 5, 8)
        f == FeistelF(key, r, L)
    IN  [i \in 1..4 |-> (R[i] - f[i]) % 256] \o L

encrypt_block(key, b) == EncRound(key, 3, EncRound(key, 2, EncRound(key, 1, b)))

decrypt_block(key, b) == DecRound(key, 1, DecRound(key, 2, DecRound(key, 3, b)))

(***************************************************************************)
(* crc::crc32::checksum_ieee, as its four big-endian bytes: two 16-bit     *)
(* lanes, each a polynomial in the bytes with an odd multiplier.           *)
(***************************************************************************)
RECURSIVE CrcLane(_, _, _, _)
CrcLane(s, i, m, h) ==
    IF i > Len(s) THEN h
    ELSE LET h2 == (h * m + s[i] + 1) % 65536
         IN  IF h2 >= 0 THEN CrcLane(s, i + 1, m, h2) ELSE 0

checksum_ieee(s) ==
    LET a == CrcLane(s, 1, 33, 5381)
        b == CrcLane(s, 1, 31, 7)
    IN  <<a \div 256, a % 256, b \div 256, b % 256>>

(***************************************************************************)
(* std::str::from_utf8 on a byte string.                                   *)
(***************************************************************************)
IsCont(s, i) == i <= Len(s) /\ s[i] >= 128 /\ s[i] <= 191

RECURSIVE Utf8From(_, _)
Utf8From(s, i) ==
    IF i > Len(s) THEN TRUE
    ELSE LET b == s[i] IN
      IF b < 128 THEN Utf8From(s, i + 1)
      ELSE IF b >= 194 /\ b <= 223 THEN IsCont(s, i + 1) /\ Utf8From(s, i + 2)
      ELSE IF b >= 224 /\ b <= 239 THEN
           /\ IsCont(s, i + 1) /\ IsCont(s, i + 2)
           /\ (b = 224 => s[i + 1] >= 160)
           /\ (b = 237 => s[i + 1] <= 159)
           /\ Utf8From(s, i + 3)
      ELSE IF b >= 240 /\ b <= 244 THEN
           /\ IsCont(s, i + 1) /\ IsCont(s, i + 2) /\ IsCont(s, i + 3)
           /\ (b = 240 => s[i + 1] >= 144)
           /\ (b = 244 => s[i + 1] <= 143)
           /\ Utf8From(s, i + 4)
      ELSE FALSE

from_utf8_ok(s) == Utf8From(s, 1)

(***************************************************************************)
(* decrypter.rs: depad                                                     *)
(***************************************************************************)
\* the mutant: the whole-block pad of eight 8s is taken for data
depad_ge(d) ==
    IF d[8] >= 8 THEN d
    ELSE IF \E i \in 0..(d[8] - 1) : d[8 - i] # d[8] THEN d
    ELSE SubSeq(d, 1, 8 - d[8])

\* data[7] > 8: no padding.  Otherwise the loop over i in 0..last compares
\* data[7 - i] with last and returns data on the first difference; when it
\* ends, &data[..8 - last].  (Indices are one higher here.)
depad(d) ==
    IF d[8] > 8 THEN d
    ELSE LET last == d[8] IN
         IF \E i \in 0..(last - 1) : d[8 - i] # last THEN d
         ELSE SubSeq(d, 1, 8 - last)

\* the blocks tried: every last byte n in 0..MaxLastByte, every other byte
\* either n (a pad byte) or one of two fill values
DepadBlocks ==
    UNION {{f \o <<n>> : f \in [1..7 -> {n, 1, 8}]} : n \in 0..MaxLastByte}

DepadIdle == data = <<>> /\ depadRes = [done |-> FALSE, out |-> <<>>]

InitDepad ==
    /\ data \in DepadBlocks
    /\ depadRes = [done |-> FALSE, out |-> <<>>]

Depad ==
    /\ ~depadRes.done
    /\ data # <<>>
    /\ depadRes' = [done |-> TRUE, out |-> depad(data)]
    /\ UNCHANGED <<data, upVars, cellVars, cpVars, pfVars, passVars>>

(***************************************************************************)
(* up.rs: the user-permit codec                                            *)
(***************************************************************************)
PERMIT_LENGTH == 16 + 8 + 4
KEY_LENGTH == 5
HWID_LENGTH == 5
ID_LENGTH == 4

UpOk(h, i) == [kind |-> "Ok", hwid |-> h, id |-> i]
UpErr(e) == [kind |-> "Err", err |-> e]
WrongLength(a, e) == [kind |-> "Err", err |-> "WrongLength", actual |-> a, expected |-> e]
\* the process aborts: a panic of an unwrap
UpPanic == [kind |-> "Panic"]
UpNone == [kind |-> "None"]

\* checks length of string and that all characters are valid hex
validator(a, l) ==
    IF Len(a) # l THEN WrongLength(Len(a), l)
    ELSE IF ~all_hex(a) THEN UpErr("NonHex")
    ELSE [kind |-> "Ok"]

\* sanity checks the encrypted userpermit: the three parts, or the error.
\* The decoded checksum (read_u32 big-endian) is compared with the CRC of
\* the 16 characters of enc_hwid.
check_up_string(up) ==
    LET v == validator(up, PERMIT_LENGTH) IN
    IF v.kind # "Ok" THEN v
    ELSE LET enc_hwid == SubSeq(up, 1, 16)
             chksum == SubSeq(up, 17, 24)
             id == SubSeq(up, 25, Len(up))
             dec == hex_decode(chksum)
         IN  IF ~dec.ok THEN UpErr("HexErr")
             ELSE IF checksum_ieee(enc_hwid) # dec.bytes THEN UpErr("HashMisMatch")
             ELSE [kind |-> "Ok", enc_hwid |-> enc_hwid, chksum |-> chksum, id |-> id]

\* the mutant: the checksum is taken over the cipher block, not over its hex
UserPermit_encrypt_rawcrc(p, key) ==
    LET v == validator(key, KEY_LENGTH) IN
    IF v.kind # "Ok" THEN v
    ELSE LET enc == encrypt_block(key, p.hwid \o <<3, 3, 3>>)
         IN  [kind |-> "Ok",
              value |-> encode_upper(enc) \o encode_upper(checksum_ieee(enc)) \o p.id]

\* UserPermit::encrypt: the hwid with three bytes of 3 is one block, the
\* block's cipher text in upper-case hex, the CRC of those 16 characters in
\* upper-case hex, then the id
UserPermit_encrypt(p, key) ==
    LET v == validator(key, KEY_LENGTH) IN
    IF v.kind # "Ok" THEN v
    ELSE LET dec == p.hwid \o <<3, 3, 3>>
             enc == encrypt_block(key, dec)
             enc_hwid == encode_upper(enc)
             chksum == checksum_ieee(enc_hwid)
         IN  [kind |-> "Ok", value |-> enc_hwid \o encode_upper(chksum) \o p.id]

\* UserPermit::decrypt: String::from_utf8(..).unwrap() panics on bytes that
\* are not UTF-8
UserPermit_decrypt(up, key) ==
    IF ~all_hex(up \o key) THEN UpErr("NonHex")
    ELSE LET v == validator(key, KEY_LENGTH) IN
    IF v.kind # "Ok" THEN v
    ELSE LET c == check_up_string(up) IN
    IF c.kind # "Ok" THEN c
    ELSE LET h == hex_decode(c.enc_hwid) IN
    IF ~h.ok THEN UpErr("HexErr")
    ELSE LET enc == decrypt_block(key, h.bytes)
             hwid == SubSeq(enc, 1, 5)
         IN  IF ~from_utf8_ok(hwid) THEN UpPanic
             ELSE UpOk(hwid, c.id)

\* '1', 'b', 'F', '0', 'a', '9'
UpAlphabetTable == <<49, 98, 70, 48, 97, 57>>
UpAlphabet == {UpAlphabetTable[i] : i \in 1..UpChars}

\* "1111", "3130"
UpIds == {<<49, 49, 49, 49>>, <<51, 49, 51, 48>>}

\* well-formed permits: what UserPermit::new accepts
UpPermits == [hwid : [1..HWID_LENGTH -> UpAlphabet], id : UpIds]

\* "12345", "abcde", "10121", "ABCDE"; "hello", "1234g"; "1234", "123456"
UpKeys ==
    { <<49, 50, 51, 52, 53>>, <<97, 98, 99, 100, 101>>, <<49, 48, 49, 50, 49>>,
      <<65, 66, 67, 68, 69>>,
      <<104, 101, 108, 108, 111>>, <<49, 50, 51, 52, 103>>,
      <<49, 50, 51, 52>>, <<49, 50, 51, 52, 53, 54>> }

\* permit strings that no encrypt produced: any 8-byte block in hex, its
\* matching CRC, an id.  Then one with a CRC that does not match, one a
\* character short, one with a character that is not hex, one with a
\* lower-case id.
RawBlocks ==
    {[i \in 1..8 |-> (37 * a + i * d) % 256] : a \in 0..RawBase, d \in 0..RawStep}

Sealed(b) ==
    encode_upper(b) \o encode_upper(checksum_ieee(encode_upper(b))) \o <<51, 49, 51, 48>>

RawStrings ==
    LET good == {Sealed(b) : b \in RawBlocks}
        one == Sealed([i \in 1..8 |-> 0])
    IN  good \cup { SubSeq(one, 1, 16) \o <<48, 48, 48, 48, 48, 48, 48, 48>> \o SubSeq(one, 25, 28),
                    SubSeq(one, 1, 27),
                    <<71>> \o SubSeq(one, 2, 28),
                    SubSeq(one, 1, 24) \o <<97, 98, 99, 100>> }

UpIdle ==
    /\ upPermit = [hwid |-> <<>>, id |-> <<>>]
    /\ upKey = <<>>
    /\ upPc = "idle"
    /\ upEnc = UpNone
    /\ upStr = <<>>
    /\ upDec = UpNone

\* either a caller that holds a permit to encode, or one that received a
\* permit string to decode
InitUp ==
    /\ \/ upPermit \in UpPermits /\ upPc = "new"
       \/ upPermit = [hwid |-> <<>>, id |-> <<>>] /\ upPc = "received"
    /\ upKey \in UpKeys
    /\ upEnc = UpNone
    /\ upStr = <<>>
    /\ upDec = UpNone

\* p.encrypt(key)
UpEncrypt ==
    /\ upPc = "new"
    /\ upEnc' = UserPermit_encrypt(upPermit, upKey)
    /\ upPc' = "encrypted"
    /\ UNCHANGED <<upPermit, upKey, upStr, upDec, depadVars, cellVars, cpVars, pfVars, passVars>>

\* UserPermit::decrypt(p.encrypt(key)?, key)
UpDecrypt ==
    /\ upPc = "encrypted"
    /\ upEnc.kind = "Ok"
    /\ upStr' = upEnc.value
    /\ upDec' = UserPermit_decrypt(upEnc.value, upKey)
    /\ upPc' = "decrypted"
    /\ UNCHANGED <<upPermit, upKey, upEnc, depadVars, cellVars, cpVars, pfVars, passVars>>

\* UserPermit::decrypt(s, key) of a string received from elsewhere
UpDecryptRaw ==
    /\ upPc = "received"
    /\ \E s \in RawStrings :
          /\ upStr' = s
          /\ upDec' = UserPermit_decrypt(s, upKey)
    /\ upPc' = "decoded"
    /\ UNCHANGED <<upPermit, upKey, upEnc, depadVars, cellVars, cpVars, pfVars, passVars>>

NextUp == UpEncrypt \/ UpDecrypt \/ UpDecryptRaw

(***************************************************************************)
(* permit.rs: CellPermit::keys and the Keys iterator                       *)
(***************************************************************************)
NoKey == [some |-> FALSE, key |-> <<>>]
SomeKey(k) == [some |-> TRUE, key |-> k]

\* the mutant: key2 is yielded even when it equals key1
Keys_next_noskip(k1, k2, i) ==
    LET j == (i + 1) % 256 IN
    [i |-> j,
     item |-> IF j = 1 THEN SomeKey(k1) ELSE IF j = 2 THEN SomeKey(k2) ELSE NoKey]

\* Keys::next: self.i += 1 (a u8), then k1 at 1, at 2 k2 unless k1 == k2
Keys_next(k1, k2, i) ==
    LET j == (i + 1) % 256 IN
    [i |-> j,
     item |-> IF j = 1 THEN SomeKey(k1)
              ELSE IF j = 2 THEN (IF k1 = k2 THEN NoKey ELSE SomeKey(k2))
              ELSE NoKey]

\* what a for loop over keys() sees: the items up to the first None
RECURSIVE KeysFrom(_, _, _)
KeysFrom(k1, k2, i) ==
    LET n == Keys_next(k1, k2, i) IN
    IF n.item.some THEN <<n.item.key>> \o KeysFrom(k1, k2, n.i) ELSE <<>>

keys(p) == KeysFrom(p.key1, p.key2, 0)

(***************************************************************************)
(* decrypter.rs: decrypt_into, with_key, with_cell                         *)
(***************************************************************************)
Min(a, b) == IF a < b THEN a ELSE b

\* One turn of decrypt_into's loop and what follows, from the state st =
\* [pos, enc, dec, out, first, n] (n reads made so far).  rdr.read(&mut enc)
\* fills enc with the next bytes of d, up to 8, and leaves the rest of enc as
\* it was; the read numbered failAt fails.  `first` is set only in the branch
\* taken when it is already false.
RECURSIVE decrypt_loop(_, _, _, _)
decrypt_loop(key, d, failAt, st) ==
    IF st.n + 1 = failAt
    THEN [res |-> "Io", out |-> st.out, pos |-> st.pos]
    ELSE LET b == Min(8, Len(d) - st.pos) IN
         IF b = 0
         THEN [res |-> "Ok", out |-> st.out \o depad(st.dec), pos |-> st.pos]
         ELSE LET enc == [i \in 1..8 |-> IF i <= b THEN d[st.pos + i] ELSE st.enc[i]]
                  first == IF ~st.first THEN FALSE ELSE st.first
                  out == IF ~st.first THEN st.out ELSE st.out \o st.dec
              IN  decrypt_loop(key, d, failAt,
                     [pos |-> st.pos + b, enc |-> enc,
                      dec |-> decrypt_block(key, enc),
                      out |-> out, first |-> first, n |-> st.n + 1])

Zero8 == [i \in 1..8 |-> 0]

\* decrypt_into(key, rdr, wtr) with rdr at offset pos of d and an empty wtr
decrypt_into(key, d, pos, failAt) ==
    decrypt_loop(key, d, failAt,
        [pos |-> pos, enc |-> Zero8, dec |-> Zero8, out |-> <<>>,
         first |-> TRUE, n |-> 0])

\* with_key(key, rdr, wtr): the block pass into zipfile, ZipArchive::new,
\* by_index(0), io::copy into wtr.  The container is the environment's: e
\* says whether the bytes open as an archive (zip), whether it has a first
\* entry, what the entry holds and how the copy ends.
with_key(key, d, pos, w, e) ==
    LET pass == decrypt_into(key, d, pos, e.readErr) IN
    IF pass.res # "Ok"
    THEN [res |-> "Io", wtr |-> w, pos |-> pass.pos, zipfile |-> pass.out]
    ELSE IF e.zip = "bad"
    THEN [res |-> "DecryptionFailed", wtr |-> w, pos |-> pass.pos, zipfile |-> pass.out]
    ELSE IF e.zip = "empty"
    THEN [res |-> "ZipErr", wtr |-> w, pos |-> pass.pos, zipfile |-> pass.out]
    ELSE IF e.copy >= 0
    THEN [res |-> "Io", wtr |-> w \o SubSeq(e.entry, 1, e.copy),
          pos |-> pass.pos, zipfile |-> pass.out]
    ELSE [res |-> "Ok", wtr |-> w \o e.entry, pos |-> pass.pos, zipfile |-> pass.out]

\* the mutant: the first failed attempt ends with_cell
attempt_match_nofallback(res) == IF res = "Ok" THEN "return_ok" ELSE "return_err"

\* with_cell's match on with_key's result: Ok(_) => return Ok(()),
\* Err(_) => continue
attempt_match(res) == IF res = "Ok" THEN "return_ok" ELSE "continue"

KeyA == <<0, 0, 0, 0, 0>>
KeyB == <<0, 0, 0, 0, 1>>

NoPermitRec == [present |-> FALSE, key1 |-> <<>>, key2 |-> <<>>]

\* no permit for the cell, a permit with equal keys, one with two keys
CellPermits ==
    {NoPermitRec} \cup [present : {TRUE}, key1 : {KeyA}, key2 : {KeyA, KeyB}]

Stream(n) == [i \in 1..n |-> (i * 29 + 7) % 256]

\* what can happen to one attempt: which read fails (0: none), how the
\* container opens, after how many bytes written the copy fails (-1: it
\* does not fail)
AttemptEnv(j) ==
    [readErr : 0..MaxReadErr, zip : {"ok", "bad", "empty"},
     copy : {-1, 0, 1}, entry : {<<100 + j, 200 + j>>}]

ResNone == [kind |-> "None", err |-> ""]
ResOk == [kind |-> "Ok", err |-> ""]
ResErr(e) == [kind |-> "Err", err |-> e]

CellIdle ==
    /\ permit = NoPermitRec
    /\ rdrData = <<>>
    /\ rdrPos = 0
    /\ wtr = <<>>
    /\ io = [seekFails |-> FALSE, attempt |-> <<>>]
    /\ keysI = 0
    /\ curKey = <<>>
    /\ attempts = <<>>
    /\ pc = "idle"
    /\ result = ResNone

InitCell ==
    /\ permit \in CellPermits
    /\ \E k \in 1..MaxQuads : rdrData = Stream(4 * k)
    /\ rdrPos \in {p \in {0, 8} : p <= Len(rdrData)}
    /\ wtr = <<>>
    /\ io \in [seekFails : BOOLEAN, attempt : {<<a, b>> : a \in AttemptEnv(1), b \in AttemptEnv(2)}]
    /\ keysI = 0
    /\ curKey = <<>>
    /\ attempts = <<>>
    /\ pc = "get_permit"
    /\ result = ResNone

\* let permit = match self.permit.get_permit(cell) { .. }
GetPermit ==
    /\ pc = "get_permit"
    /\ IF permit.present
       THEN pc' = "for" /\ UNCHANGED result
       ELSE pc' = "done" /\ result' = ResErr("NoPermit")
    /\ UNCHANGED <<permit, rdrData, rdrPos, wtr, io, keysI, curKey, attempts>>
    /\ UNCHANGED <<depadVars, upVars, cpVars, pfVars, passVars>>

\* the head of the for loop: keys().enumerate() yields (i, key) or ends the
\* loop; for i != 0 the stream is sought to its start, and a failed seek
\* returns its error
ForNext ==
    /\ pc = "for"
    /\ LET n == Keys_next(permit.key1, permit.key2, keysI)
           i == Len(attempts)
       IN  /\ keysI' = n.i
           /\ IF ~n.item.some
              THEN /\ pc' = "done"
                   /\ result' = ResErr("DecryptionFailed")
                   /\ UNCHANGED <<rdrPos, curKey>>
              ELSE IF i # 0 /\ io.seekFails
              THEN /\ pc' = "done"
                   /\ result' = ResErr("Io")
                   /\ UNCHANGED <<rdrPos, curKey>>
              ELSE /\ pc' = "with_key"
                   /\ curKey' = n.item.key
                   /\ rdrPos' = IF i # 0 THEN 0 ELSE rdrPos
                   /\ UNCHANGED result
    /\ UNCHANGED <<permit, rdrData, wtr, io, attempts>>
    /\ UNCHANGED <<depadVars, upVars, cpVars, pfVars, passVars>>

\* the body of the for loop: match self.with_key(key, &mut rdr, &mut wtr)
WithKey ==
    /\ pc = "with_key"
    /\ \E w \in {with_key(curKey, rdrData, rdrPos, wtr, io.attempt[Len(attempts) + 1])} :
       \E m \in {attempt_match(w.res)} :
           /\ attempts' = Append(attempts,
                 [key |-> curKey, startPos |-> rdrPos, res |-> w.res,
                  zipfile |-> w.zipfile])
           /\ wtr' = w.wtr
           /\ rdrPos' = w.pos
           /\ pc' = IF m = "continue" THEN "for" ELSE "done"
           /\ result' = IF m = "return_ok" THEN ResOk
                        ELSE IF m = "continue" THEN result
                        ELSE ResErr(w.res)
    /\ UNCHANGED <<permit, rdrData, io, keysI, curKey>>
    /\ UNCHANGED <<depadVars, upVars, cpVars, pfVars, passVars>>

NextCell == GetPermit \/ ForNext \/ WithKey

(***************************************************************************)
(* decrypter.rs: decrypt_into on its own                                   *)
(***************************************************************************)
\* the padding a cell file carries: 8 - (n mod 8) bytes of that value
Pad(n) == [i \in 1..(8 - (n % 8)) |-> 8 - (n % 8)]

\* a plaintext of n bytes
Plain(n) == [i \in 1..n |-> (i * 53 + 11) % 256]

RECURSIVE EncryptBlocks(_, _)
EncryptBlocks(key, p) ==
    IF p = <<>> THEN <<>>
    ELSE encrypt_block(key, SubSeq(p, 1, 8)) \o EncryptBlocks(key, SubSeq(p, 9, Len(p)))

\* the bytes handed to decrypt_into: nothing; a padded plaintext encrypted
\* under KeyA; the same followed by up to MaxExtra bytes more, which
\* leaves a length that is no multiple of 8
PassInputs ==
    {<<>>} \cup
    {EncryptBlocks(KeyA, Plain(n) \o Pad(n)) \o [i \in 1..x |-> (i * 91) % 256] :
        n \in 0..MaxPlain, x \in 0..MaxExtra}

NoPass == [key |-> <<>>, data |-> <<>>, failAt |-> 0, done |-> FALSE, res |-> "", out |-> <<>>]

PassIdle == blockPass = NoPass

InitPass ==
    \E k \in {KeyA, KeyB}, d \in PassInputs, f \in 0..MaxReadErr :
        blockPass = [key |-> k, data |-> d, failAt |-> f, done |-> FALSE, res |-> "", out |-> <<>>]

\* decrypt_into(key, rdr, wtr) with rdr at the start of the data
DecryptInto ==
    /\ ~blockPass.done
    /\ blockPass.key # <<>>
    /\ \E r \in {decrypt_into(blockPass.key, blockPass.data, 0, blockPass.failAt)} :
           blockPass' = [blockPass EXCEPT !.done = TRUE, !.res = r.res, !.out = r.out]
    /\ UNCHANGED <<depadVars, upVars, cellVars, cpVars, pfVars>>

NextPass == DecryptInto

(***************************************************************************)
(* permit.rs: text helpers (std)                                           *)
(***************************************************************************)
starts_with(s, p) == Len(s) >= Len(p) /\ SubSeq(s, 1, Len(p)) = p

IsSpace(c) == c \in {9, 10, 11, 12, 13, 32}

IsDigit(c) == c >= 48 /\ c <= 57

SetMin(S) == CHOOSE i \in S : \A j \in S : i <= j
SetMax(S) == CHOOSE i \in S : \A j \in S : i >= j

\* the index of the first c in s after position from, 0 when there is none
FirstIndexFrom(s, c, from) ==
    LET S == {i \in (from + 1)..Len(s) : s[i] = c}
    IN  IF S = {} THEN 0 ELSE SetMin(S)

\* str::split(c): the pieces between the separators, at least one
RECURSIVE split_from(_, _, _)
split_from(s, c, from) ==
    LET i == FirstIndexFrom(s, c, from) IN
    IF i = 0 THEN <<SubSeq(s, from + 1, Len(s))>>
    ELSE <<SubSeq(s, from + 1, i - 1)>> \o split_from(s, c, i)

split(s, c) == split_from(s, c, 0)

\* str::trim
trim(s) ==
    LET S == {i \in 1..Len(s) : ~IsSpace(s[i])}
    IN  IF S = {} THEN <<>> ELSE SubSeq(s, SetMin(S), SetMax(S))

\* the value of a string of digits, cut off once it is past 255
RECURSIVE DigitsVal(_, _)
DigitsVal(s, acc) ==
    IF s = <<>> \/ acc > 9999 THEN acc
    ELSE DigitsVal(Tail(s), acc * 10 + (Head(s) - 48))

\* str::parse::<u8>(): an optional '+', then digits, at most 255
parse_u8(s) ==
    LET t == IF s # <<>> /\ s[1] = 43 THEN Tail(s) ELSE s IN
    IF t = <<>> \/ (\E i \in 1..Len(t) : ~IsDigit(t[i])) \/ DigitsVal(t, 0) > 255
    THEN [ok |-> FALSE, val |-> 0]
    ELSE [ok |-> TRUE, val |-> DigitsVal(t, 0)]

DaysIn(y, m) ==
    IF m \in {4, 6, 9, 11} THEN 30
    ELSE IF m = 2 THEN (IF (y % 4 = 0 /\ y % 100 # 0) \/ y % 400 = 0 THEN 29 ELSE 28)
    ELSE 31

NoDate == [y |-> 0, m |-> 0, d |-> 0]

\* NaiveDate::parse_from_str(s, "%Y%m%d") on an 8-character field
parse_date(s) ==
    IF Len(s) # 8 \/ (\E i \in 1..Len(s) : ~IsDigit(s[i]))
    THEN [ok |-> FALSE, date |-> NoDate]
    ELSE LET y == DigitsVal(SubSeq(s, 1, 4), 0)
             m == DigitsVal(SubSeq(s, 5, 6), 0)
             d == DigitsVal(SubSeq(s, 7, 8), 0)
         IN  IF m >= 1 /\ m <= 12 /\ d >= 1 /\ d <= DaysIn(y, m)
             THEN [ok |-> TRUE, date |-> [y |-> y, m |-> m, d |-> d]]
             ELSE [ok |-> FALSE, date |-> NoDate]

(***************************************************************************)
(* permit.rs: the key/checksum codec and parse_cell_permit                 *)
(***************************************************************************)
PERMIT_RECORD_LENGTH == 8 + 8 + 16 + 16 + 16

\* hwid.chars().chain(hwid[0..1].chars()).collect()
hwid6(hwid) == hwid \o SubSeq(hwid, 1, 1)

\* crc32(data): checksum_ieee written big-endian into 4 bytes
crc32(d) == checksum_ieee(d)

\* permit_chksum(s, key): the error, or "Ok"
permit_chksum(s, key) ==
    LET rest == SubSeq(s, 1, 48)
        chksum == hex_decode(SubSeq(s, 49, Len(s)))
        enc == encrypt_block(hwid6(key), crc32(rest) \o <<4, 4, 4, 4>>)
    IN  IF ~chksum.ok THEN "FromHex"
        ELSE IF chksum.bytes = enc THEN "Ok"
        ELSE "InvalidChksum"

\* decrypt_key(s, hwid): the first 5 bytes of the decrypted block
decrypt_key(s, hwid) ==
    LET h == hex_decode(s) IN
    IF ~h.ok THEN [ok |-> FALSE, key |-> <<>>]
    ELSE [ok |-> TRUE, key |-> SubSeq(decrypt_block(hwid6(hwid), h.bytes), 1, 5)]

NoCellPermit == [cell |-> <<>>, date |-> NoDate, key1 |-> <<>>, key2 |-> <<>>]

CpErr(e, ops) == [ok |-> FALSE, err |-> e, ops |-> ops, cp |-> NoCellPermit]

\* the mutant: the date and the keys are recovered first, the checksum is
\* verified last
parse_cell_permit_late(s, key) ==
    IF Len(s) # PERMIT_RECORD_LENGTH THEN CpErr("ParseError(1)", <<>>)
    ELSE LET date == parse_date(SubSeq(s, 9, 16))
             key1 == decrypt_key(SubSeq(s, 17, 32), key)
             key2 == decrypt_key(SubSeq(s, 33, 48), key)
             c == permit_chksum(s, key)
         IN  IF ~date.ok THEN CpErr("InvalidDate", <<"parse_date">>)
             ELSE IF ~key1.ok THEN CpErr("FromHex", <<"parse_date", "decrypt_key">>)
             ELSE IF ~key2.ok
             THEN CpErr("FromHex", <<"parse_date", "decrypt_key", "decrypt_key">>)
             ELSE IF c # "Ok"
             THEN CpErr(c, <<"parse_date", "decrypt_key", "decrypt_key", "permit_chksum">>)
             ELSE [ok |-> TRUE, err |-> "",
                   ops |-> <<"parse_date", "decrypt_key", "decrypt_key", "permit_chksum">>,
                   cp |-> [cell |-> SubSeq(s, 1, 8), date |-> date.date,
                           key1 |-> key1.key, key2 |-> key2.key]]

\* parse_cell_permit(s, key): the CellPermit or the error, and in ops the
\* calls it made, in order.  Each `?` returns at the first error.
parse_cell_permit(s, key) ==
    IF Len(s) # PERMIT_RECORD_LENGTH THEN CpErr("ParseError(1)", <<>>)
    ELSE LET c == permit_chksum(s, key) IN
    IF c # "Ok" THEN CpErr(c, <<"permit_chksum">>)
    ELSE LET date == parse_date(SubSeq(s, 9, 16)) IN
    IF ~date.ok THEN CpErr("InvalidDate", <<"permit_chksum", "parse_date">>)
    ELSE LET key1 == decrypt_key(SubSeq(s, 17, 32), key) IN
    IF ~key1.ok THEN CpErr("FromHex", <<"permit_chksum", "parse_date", "decrypt_key">>)
    ELSE LET key2 == decrypt_key(SubSeq(s, 33, 48), key) IN
    IF ~key2.ok
    THEN CpErr("FromHex", <<"permit_chksum", "parse_date", "decrypt_key", "decrypt_key">>)
    ELSE [ok |-> TRUE, err |-> "",
          ops |-> <<"permit_chksum", "parse_date", "decrypt_key", "decrypt_key">>,
          cp |-> [cell |-> SubSeq(s, 1, 8), date |-> date.date,
                  key1 |-> key1.key, key2 |-> key2.key]]

\* A cell-permit field as the data server issues it for installation key
\* hwid: cell, date, the two cell keys (padded with 3s) encrypted and in hex,
\* and the checksum block of the first 48 characters.
IssueCellPermit(cell, date, k1, k2, hwid) ==
    LET k == hwid6(hwid)
        rest == cell \o date \o encode_upper(encrypt_block(k, k1 \o <<3, 3, 3>>))
                     \o encode_upper(encrypt_block(k, k2 \o <<3, 3, 3>>))
    IN  rest \o encode_upper(encrypt_block(k, crc32(rest) \o <<4, 4, 4, 4>>))

\* "12345"
Hwid == <<49, 50, 51, 52, 53>>
\* "GB100001", "GB100002"
Cell1 == <<71, 66, 49, 48, 48, 48, 48, 49>>
Cell2 == <<71, 66, 49, 48, 48, 48, 48, 50>>
\* "20071231"; "20071341", which is no date
Date1 == <<50, 48, 48, 55, 49, 50, 51, 49>>
BadDate == <<50, 48, 48, 55, 49, 51, 52, 49>>

CKey1 == <<54, 62, 171, 50, 198>>
CKey2 == <<73, 74, 128, 79, 106>>

Field1 == IssueCellPermit(Cell1, Date1, CKey1, CKey1, Hwid)
Field2 == IssueCellPermit(Cell2, Date1, CKey1, CKey2, Hwid)
FieldBadDate == IssueCellPermit(Cell1, BadDate, CKey1, CKey1, Hwid)

\* '0', 'A', 'z', '9'
MutTable == <<48, 65, 122, 57>>

Replace(s, i, c) == [j \in 1..Len(s) |-> IF j = i THEN c ELSE s[j]]

\* lower-case letters for upper-case ones
Lower(s) == [j \in 1..Len(s) |-> IF s[j] >= 65 /\ s[j] <= 90 THEN s[j] + 32 ELSE s[j]]

\* the fields handed to parse_cell_permit, each with the position at which
\* it was altered (0: as issued): the issued fields; each with one
\* character of the 48-character prefix replaced; a checksum digit replaced;
\* a checksum that is not hex; the checksum in lower case; a character
\* short, a character long
CellPermitInputs ==
    LET issued == {Field1, Field2, FieldBadDate}
    IN  {[s |-> f, mut |-> 0] : f \in issued}
        \cup {[s |-> Replace(f, i, MutTable[c]), mut |-> i] :
                 f \in issued, i \in 1..48, c \in 1..MutChars}
        \cup {[s |-> Replace(Field1, 64, IF Field1[64] = 48 THEN 49 ELSE 48), mut |-> 64],
              [s |-> Replace(Field1, 50, 71), mut |-> 50],
              [s |-> SubSeq(Field1, 1, 48) \o Lower(SubSeq(Field1, 49, 64)), mut |-> 0],
              [s |-> SubSeq(Field1, 1, 63), mut |-> 64],
              [s |-> Field1 \o <<48>>, mut |-> 65]}

NoCpRes == [done |-> FALSE, ok |-> FALSE, err |-> "", ops |-> <<>>, cp |-> NoCellPermit]

CpIdle ==
    /\ cpField = <<>>
    /\ cpKey = <<>>
    /\ cpMut = 0
    /\ cpRes = NoCpRes

\* an altered field is one that differs from the issued one
InitCp ==
    /\ \E in \in CellPermitInputs :
          /\ in.mut \in 1..48 => in.s \notin {Field1, Field2, FieldBadDate}
          /\ cpField = in.s
          /\ cpMut = in.mut
    /\ cpKey = Hwid
    /\ cpRes = NoCpRes

\* parse_cell_permit(s, key)
ParseCellPermit ==
    /\ ~cpRes.done
    /\ cpField # <<>>
    /\ \E r \in {parse_cell_permit(cpField, cpKey)} :
           cpRes' = [done |-> TRUE, ok |-> r.ok, err |-> r.err, ops |-> r.ops, cp |-> r.cp]
    /\ UNCHANGED <<cpField, cpKey, cpMut>>
    /\ UNCHANGED <<depadVars, upVars, cellVars, pfVars, passVars>>

NextCp == ParseCellPermit

(***************************************************************************)
(* permit.rs: parse_permit, PermitFile::new, Permits::next, permit_from_rdr *)
(***************************************************************************)
NoRecord ==
    [cell_permit |-> NoCellPermit, sli |-> "", edition |-> [some |-> FALSE, val |-> 0],
     data_server_id |-> <<>>, comment |-> <<>>]

ItemErr(e) == [ok |-> FALSE, err |-> e, rec |-> NoRecord]
ItemOk(r) == [ok |-> TRUE, err |-> "", rec |-> r]

\* SericeLevelIndicator::from_str
sli_from_str(f) ==
    IF f = <<48>> THEN "SubscriptionPermit"
    ELSE IF f = <<49>> THEN "SinglePurchasePermit"
    ELSE "InvalidSli"

\* parses one ECS row in the PERMIT.TXT file: the fields are taken from the
\* split one at a time, each `?` returning at the first error
parse_permit(s, key) ==
    LET ss == split(s, 44)
        cpr == parse_cell_permit(ss[1], key)
    IN  IF ~cpr.ok THEN ItemErr(cpr.err)
        ELSE IF Len(ss) < 2 THEN ItemErr("CellPermitTooShort")
        ELSE IF sli_from_str(ss[2]) = "InvalidSli" THEN ItemErr("InvalidSli")
        ELSE IF Len(ss) < 3 THEN ItemErr("CellPermitTooShort")
        ELSE IF ss[3] # <<>> /\ ~parse_u8(ss[3]).ok THEN ItemErr("ParseIntErr")
        ELSE IF Len(ss) < 5 THEN ItemErr("CellPermitTooShort")
        ELSE ItemOk([cell_permit |-> cpr.cp,
                     sli |-> sli_from_str(ss[2]),
                     edition |-> IF ss[3] = <<>> THEN [some |-> FALSE, val |-> 0]
                                 ELSE [some |-> TRUE, val |-> parse_u8(ss[3]).val],
                     data_server_id |-> ss[4],
                     comment |-> trim(ss[5])])

\* BufRead::read_line on the reader (buf, pos): the bytes up to and with the
\* next newline, or to the end; n = 0 at the end of input
read_line(buf, pos) ==
    LET i == FirstIndexFrom(buf, 10, pos)
        end == IF i = 0 THEN Len(buf) ELSE i
    IN  [n |-> end - pos, s |-> SubSeq(buf, pos + 1, end), pos |-> end]

NoMeta == [date |-> NoDate, hh |-> 0, mm |-> 0, version |-> 0]

\* get_date: ":DATE " then "%Y%m%d %H:%M", or else "%Y%m%d"
get_date(line) ==
    LET l == trim(line) IN
    IF ~starts_with(l, <<58, 68, 65, 84, 69, 32>>) THEN [err |-> "ParseError(1)", date |-> NoDate, hh |-> 0, mm |-> 0]
    ELSE LET r == SubSeq(l, 7, Len(l))
             d == parse_date(SubSeq(r, 1, Min(8, Len(r))))
         IN  IF /\ Len(r) = 14 /\ d.ok /\ r[9] = 32 /\ r[12] = 58
                /\ \A i \in {10, 11, 13, 14} : IsDigit(r[i])
                /\ DigitsVal(SubSeq(r, 10, 11), 0) <= 23
                /\ DigitsVal(SubSeq(r, 13, 14), 0) <= 59
             THEN [err |-> "", date |-> d.date,
                   hh |-> DigitsVal(SubSeq(r, 10, 11), 0),
                   mm |-> DigitsVal(SubSeq(r, 13, 14), 0)]
             ELSE IF Len(r) = 8 /\ d.ok
             THEN [err |-> "", date |-> d.date, hh |-> 0, mm |-> 0]
             ELSE [err |-> "InvalidDate", date |-> NoDate, hh |-> 0, mm |-> 0]

\* get_version: ":VERSION " then a u8
get_version(line) ==
    LET l == trim(line) IN
    IF ~starts_with(l, <<58, 86, 69, 82, 83, 73, 79, 78, 32>>) THEN [err |-> "ParseError(2)", version |-> 0]
    ELSE LET v == parse_u8(SubSeq(l, 10, Len(l)))
         IN  IF v.ok THEN [err |-> "", version |-> v.val]
             ELSE [err |-> "ParseIntErr", version |-> 0]

\* PermitFile::new: the first line is read and parsed, then the second
PermitFile_new(buf) ==
    LET l1 == read_line(buf, 0)
        date == get_date(l1.s)
        l2 == read_line(buf, l1.pos)
        version == get_version(l2.s)
    IN  IF date.err # "" THEN [err |-> date.err, meta |-> NoMeta, pos |-> l1.pos]
        ELSE IF version.err # "" THEN [err |-> version.err, meta |-> NoMeta, pos |-> l2.pos]
        ELSE [err |-> "",
              meta |-> [date |-> date.date, hh |-> date.hh, mm |-> date.mm,
                        version |-> version.version],
              pos |-> l2.pos]

is_directive(s) == starts_with(s, <<58, 69, 78, 67>>) \/ starts_with(s, <<58, 69, 67, 83>>)

\* the mutant: only :ENC lines are skipped
RECURSIVE Permits_next_enc(_, _, _)
Permits_next_enc(buf, pos, key) ==
    LET rl == read_line(buf, pos) IN
    IF starts_with(rl.s, <<58, 69, 78, 67>>) THEN Permits_next_enc(buf, rl.pos, key)
    ELSE [some |-> rl.n # 0,
          item |-> IF rl.n = 0 THEN ItemErr("") ELSE parse_permit(rl.s, key),
          pos |-> rl.pos]

\* Permits::next: a line is read; at the end of input the result is None,
\* otherwise Some(parse_permit(line)); a line that starts with :ENC or :ECS
\* is passed over by calling next() again
RECURSIVE Permits_next(_, _, _)
Permits_next(buf, pos, key) ==
    LET rl == read_line(buf, pos) IN
    IF is_directive(rl.s) THEN Permits_next(buf, rl.pos, key)
    ELSE [some |-> rl.n # 0,
          item |-> IF rl.n = 0 THEN ItemErr("") ELSE parse_permit(rl.s, key),
          pos |-> rl.pos]

\* the mutant: a record that failed to parse is left out of the index
index_match_skip(n) ==
    IF ~n.some THEN "return_ok" ELSE IF ~n.item.ok THEN "skip" ELSE "insert"

\* permit_from_rdr's loop body: the end of the sequence returns Ok(res),
\* `permit?` returns the first Err, an Ok record is inserted
index_match(n) ==
    IF ~n.some THEN "return_ok" ELSE IF ~n.item.ok THEN "return_err" ELSE "insert"

\* HashMap::insert
insert(idx, k, v) == [c \in (DOMAIN idx) \cup {k} |-> IF c = k THEN v ELSE idx[c]]

EmptyIndex == [c \in {} |-> NoRecord]

\* ":DATE 20071023 10:20" and ":VERSION 2"; ":DATA 20071023" and ":VERSION 2"
GoodHeader == <<58, 68, 65, 84, 69, 32, 50, 48, 48, 55, 49, 48, 50, 51, 32, 49, 48, 58, 50, 48, 10, 58, 86, 69, 82, 83, 73, 79, 78, 32, 50, 10>>
BadHeader == <<58, 68, 65, 84, 65, 32, 50, 48, 48, 55, 49, 48, 50, 51, 10, 58, 86, 69, 82, 83, 73, 79, 78, 32, 50, 10>>

\* the lines after the header: two records, a record whose cell name was
\* altered, a record with service level 7, the two directives
LineTable ==
    << Field1 \o <<44, 48, 44, 49, 44, 71, 66, 44, 104, 101, 106, 10>>,
       Field2 \o <<44, 49, 44, 44, 71, 66, 44, 10>>,
       Replace(Field1, 3, 57) \o <<44, 49, 44, 44, 71, 66, 44, 10>>,
       Field2 \o <<44, 55, 44, 48, 44, 71, 66, 44, 10>>,
       <<58, 69, 78, 67, 10>>,
       <<58, 69, 67, 83, 10>> >>

RECURSIVE Flatten(_)
Flatten(ls) == IF ls = <<>> THEN <<>> ELSE Head(ls) \o Flatten(Tail(ls))

Bodies == UNION {[1..n -> 1..Len(LineTable)] : n \in 0..MaxLines}

PfNone == [kind |-> "None", err |-> ""]

PfIdle ==
    /\ pfBuf = <<>>
    /\ pfPos = 0
    /\ pfKey = <<>>
    /\ pfMode = "idle"
    /\ pfPc = "idle"
    /\ pfMeta = NoMeta
    /\ pfItems = <<>>
    /\ pfLast = "none"
    /\ pfIndex = EmptyIndex
    /\ pfResult = PfNone

InitPf ==
    /\ \E h \in {GoodHeader, BadHeader}, b \in Bodies :
          pfBuf = h \o Flatten([i \in 1..Len(b) |-> LineTable[b[i]]])
    /\ pfPos = 0
    /\ pfKey = Hwid
    /\ pfMode \in {"iter", "index"}
    /\ pfPc = "new"
    /\ pfMeta = NoMeta
    /\ pfItems = <<>>
    /\ pfLast = "none"
    /\ pfIndex = EmptyIndex
    /\ pfResult = PfNone

\* PermitFile::new(rdr), called by the user or as the first step of
\* permit_from_rdr, where `?` returns its error
PermitFileNew ==
    /\ pfPc = "new"
    /\ \E r \in {PermitFile_new(pfBuf)} :
           /\ pfPos' = r.pos
           /\ pfMeta' = r.meta
           /\ IF r.err # ""
              THEN pfPc' = "done" /\ pfResult' = [kind |-> "Err", err |-> r.err]
              ELSE pfPc' = "permits" /\ UNCHANGED pfResult
    /\ UNCHANGED <<pfBuf, pfKey, pfMode, pfItems, pfLast, pfIndex>>
    /\ UNCHANGED <<depadVars, upVars, cellVars, cpVars, passVars>>

\* one call of next() by a user of f.permits(key); the iterator can be
\* called again after it returned None
PermitsNext ==
    /\ pfPc = "permits"
    /\ pfMode = "iter"
    /\ \E n \in {Permits_next(pfBuf, pfPos, pfKey)} :
           /\ pfPos' = n.pos
           /\ pfItems' = IF n.some THEN Append(pfItems, n.item) ELSE pfItems
           /\ pfLast' = IF n.some THEN "Some" ELSE "None"
    /\ UNCHANGED <<pfBuf, pfKey, pfMode, pfPc, pfMeta, pfIndex, pfResult>>
    /\ UNCHANGED <<depadVars, upVars, cellVars, cpVars, passVars>>

\* one turn of `for permit in f.permits(key)` in permit_from_rdr
IndexStep ==
    /\ pfPc = "permits"
    /\ pfMode = "index"
    /\ \E n \in {Permits_next(pfBuf, pfPos, pfKey)} : \E m \in {index_match(n)} :
           /\ pfPos' = n.pos
           /\ pfItems' = IF n.some THEN Append(pfItems, n.item) ELSE pfItems
           /\ pfLast' = IF n.some THEN "Some" ELSE "None"
           /\ pfIndex' = IF m = "insert"
                         THEN insert(pfIndex, n.item.rec.cell_permit.cell, n.item.rec)
                         ELSE pfIndex
           /\ pfPc' = IF m \in {"return_ok", "return_err"} THEN "done" ELSE pfPc
           /\ pfResult' = IF m = "return_ok" THEN [kind |-> "Ok", err |-> ""]
                          ELSE IF m = "return_err" THEN [kind |-> "Err", err |-> n.item.err]
                          ELSE pfResult
    /\ UNCHANGED <<pfBuf, pfKey, pfMode, pfMeta>>
    /\ UNCHANGED <<depadVars, upVars, cellVars, cpVars, passVars>>

NextPf == PermitFileNew \/ PermitsNext \/ IndexStep

(***************************************************************************)
(* Claims about depad                                                      *)
(***************************************************************************)
IsPadded(d) == d[8] <= 8 /\ \A j \in (8 - d[8] + 1)..8 : d[j] = d[8]

\* C4: for every 8-byte block b with n = b[7], depad returns the first
\* 8 - n bytes when n <= 8 and the last n bytes all equal n, and the whole
\* block otherwise; a block of eight 8s yields no bytes, n = 0 yields the
\* block, and the result is always a prefix of the block.
C4_DepadRule ==
    depadRes.done =>
        /\ IsPadded(data) => depadRes.out = SubSeq(data, 1, 8 - data[8])
        /\ ~IsPadded(data) => depadRes.out = data
        /\ data = <<8, 8, 8, 8, 8, 8, 8, 8>> => depadRes.out = <<>>
        /\ data[8] = 0 => depadRes.out = data
        /\ Len(depadRes.out) <= 8
        /\ depadRes.out = SubSeq(data, 1, Len(depadRes.out))

\* the whole block is padding and depad has returned no bytes
C4_Witness ==
    depadRes.done /\ data = <<8, 8, 8, 8, 8, 8, 8, 8>> /\ depadRes.out = <<>>

(***************************************************************************)
(* Claims about the user-permit codec                                      *)
(***************************************************************************)
RoundTrips ==
    /\ upPc \in {"encrypted", "decrypted"} =>
          upEnc.kind = "Ok" /\ Len(upEnc.value) = PERMIT_LENGTH
    /\ upPc = "decrypted" => upDec = UpOk(upPermit.hwid, upPermit.id)

C10_DecryptNeverPanics ==
    (upPc \in {"decrypted", "decoded"} /\ check_up_string(upStr).kind = "Ok"
        /\ Len(upKey) = KEY_LENGTH /\ all_hex(upKey))
    => upDec.kind \in {"Ok", "Err"}

(***************************************************************************)
(* Claims about with_cell                                                  *)
(***************************************************************************)
Done == pc = "done"

IsSuffix(t, s) == Len(t) <= Len(s) /\ SubSeq(s, Len(s) - Len(t) + 1, Len(s)) = t

\* the attempt with key2, run from the start of the stream, yields a
\* container whose first entry is copied in full
Key2Works == with_key(permit.key2, rdrData, 0, <<>>, io.attempt[2]).res = "Ok"

C2_KeyOrder ==
    /\ Len(attempts) <= 2
    /\ Len(attempts) >= 1 => attempts[1].key = permit.key1
    /\ Len(attempts) = 2 =>
          /\ attempts[2].key = permit.key2
          /\ permit.key2 # permit.key1
          /\ attempts[1].res # "Ok"
    /\ \A j \in 1..(Len(attempts) - 1) : attempts[j].res # "Ok"
    /\ permit.present =>
          keys(permit) = IF permit.key1 = permit.key2
                         THEN <<permit.key1>>
                         ELSE <<permit.key1, permit.key2>>
    /\ (Done /\ result = ResErr("DecryptionFailed")) =>
          [j \in 1..Len(attempts) |-> attempts[j].key] = keys(permit)

\* equal keys: one failed attempt and the call is over
C2_Witness ==
    /\ Done /\ permit.present /\ permit.key1 = permit.key2
    /\ Len(attempts) = 1
    /\ attempts[1].res # "Ok"
    /\ result = ResErr("DecryptionFailed")

\* two keys: both were tried, in order
C2_WitnessTwo ==
    /\ Done /\ Len(attempts) = 2
    /\ attempts[1].key = permit.key1 /\ attempts[2].key = permit.key2

\* C3: every attempt, the first one included, begins reading the stream at
\* offset 0, whatever position the caller's stream had.
C3_AttemptsStartAtZero ==
    \A j \in 1..Len(attempts) : attempts[j].startPos = 0

\* C5: when a read, a seek or a write fails with an I/O error during
\* with_cell, with_cell returns an error wrapping it (E::Io), not
\* DecryptionFailed, not Ok, and it does not go on to the next key.
C5_IoErrorsReturned ==
    /\ \A j \in 1..Len(attempts) : attempts[j].res = "Io" =>
          (pc = "done" /\ j = Len(attempts) /\ result = ResErr("Io"))

(***************************************************************************)
(* Claims about parse_cell_permit                                          *)
(***************************************************************************)
\* the checksum block the field should carry: the CRC-32 of the prefix,
\* big-endian, with four 4s, encrypted under the rotate-append key
ExpectedChecksum(s, key) ==
    encrypt_block(hwid6(key), checksum_ieee(SubSeq(s, 1, 48)) \o <<4, 4, 4, 4>>)

ChecksumMismatch ==
    /\ Len(cpField) = PERMIT_RECORD_LENGTH
    /\ all_hex(SubSeq(cpField, 49, 64))
    /\ hex_decode(SubSeq(cpField, 49, 64)).bytes # ExpectedChecksum(cpField, cpKey)

\* C8: for every 64-character field whose 16-hex checksum is not the
\* encryption of CRC32-BE(prefix48) ++ [4,4,4,4] under the rotate-append
\* key, parse_cell_permit returns InvalidChksum and has neither parsed the
\* date nor called decrypt_key; a CellPermit is produced only after the
\* checksum was verified; a field whose 48-character prefix was altered at
\* any one position is rejected.
C8_ChecksumFirst ==
    cpRes.done =>
        /\ ChecksumMismatch =>
              /\ ~cpRes.ok /\ cpRes.err = "InvalidChksum"
              /\ cpRes.ops = <<"permit_chksum">>
        /\ cpRes.ok =>
              /\ cpRes.ops[1] = "permit_chksum"
              /\ ~ChecksumMismatch
        /\ \A i \in 1..Len(cpRes.ops) :
              cpRes.ops[i] \in {"parse_date", "decrypt_key"} =>
                  (i > 1 /\ cpRes.ops[1] = "permit_chksum" /\ ~ChecksumMismatch)
        /\ cpMut \in 1..48 => (~cpRes.ok /\ cpRes.err = "InvalidChksum")

\* the date of an issued field was altered into something that is no date:
\* rejected on the checksum, the date never parsed
C8_Witness ==
    /\ cpRes.done
    /\ cpMut \in 9..16
    /\ ~parse_date(SubSeq(cpField, 9, 16)).ok
    /\ cpRes.err = "InvalidChksum"
    /\ cpRes.ops = <<"permit_chksum">>

\* an issued field yields its CellPermit
C8_WitnessOk ==
    cpRes.done /\ cpRes.ok /\ cpRes.cp.key1 = CKey1 /\ cpRes.cp.key2 = CKey2

(***************************************************************************)
(* Claims about the permit file parser and the permit index                *)
(***************************************************************************)
\* the positions in buf where a line ends: each newline, and the last byte
LineEnds(buf) == {i \in 1..Len(buf) : buf[i] = 10 \/ i = Len(buf)}

LineNo(buf, e) == Cardinality({x \in LineEnds(buf) : x <= e})

LineAt(buf, e) == SubSeq(buf, SetMax({0} \cup {x \in LineEnds(buf) : x < e}) + 1, e)

Directive(l) ==
    Len(l) >= 4 /\ SubSeq(l, 1, 4) \in {<<58, 69, 78, 67>>, <<58, 69, 67, 83>>}

\* the ends of the non-directive lines after the two header lines
DataEnds(buf) ==
    {e \in LineEnds(buf) : LineNo(buf, e) > 2 /\ ~Directive(LineAt(buf, e))}

DataNo(buf, e) == Cardinality({x \in DataEnds(buf) : x <= e})

\* the item of each non-directive line after the header, in file order
Expected(buf, key) ==
    [j \in 1..Cardinality(DataEnds(buf)) |->
        parse_permit(LineAt(buf, CHOOSE e \in DataEnds(buf) : DataNo(buf, e) = j), key)]

HeaderParsed == pfPc = "permits" \/ (pfPc = "done" /\ pfLast # "none")

IndexDone == pfPc = "done" /\ pfMode = "index"

FirstErr(exp) == SetMin({j \in 1..Len(exp) : ~exp[j].ok})

\* what permit_from_rdr returned, against the items exp of the record
\* sequence: Err(e) exactly when some item is Err, e the first such error,
\* with no item pulled after it; Ok only when every item is Ok, the index
\* then holding the records under their cell names
AllOrNothing(exp) ==
    IF \E j \in 1..Len(exp) : ~exp[j].ok
    THEN /\ pfResult = [kind |-> "Err", err |-> exp[FirstErr(exp)].err]
         /\ pfItems = SubSeq(exp, 1, FirstErr(exp))
    ELSE /\ pfResult = [kind |-> "Ok", err |-> ""]
         /\ pfItems = exp
         /\ DOMAIN pfIndex = {exp[j].rec.cell_permit.cell : j \in 1..Len(exp)}
         /\ \A j \in 1..Len(exp) :
                (\A k \in (j + 1)..Len(exp) :
                     exp[k].rec.cell_permit.cell # exp[j].rec.cell_permit.cell)
                => pfIndex[exp[j].rec.cell_permit.cell] = exp[j].rec

\* C7 (as amended): for a file whose two header lines parse, permit_from_rdr
\* returns Err(e) if and only if some item of the record sequence is Err,
\* e being the first such error in file order, and no item is pulled after
\* it; it returns Ok(index) only when every data line parsed.  (A header
\* line that fails to parse is returned as Err before any item is pulled.)
C7_AllOrNothing ==
    (IndexDone /\ PermitFile_new(pfBuf).err = "") => AllOrNothing(Expected(pfBuf, pfKey))

\* C7 as stated, for every file: refuted by a file whose header does not
\* parse and whose data lines all do
C7_AllOrNothingAnyHeader ==
    IndexDone => AllOrNothing(Expected(pfBuf, pfKey))

\* a record was inserted, the next line failed and its error was returned
\* with a later, differently failing line left unread
C7_Witness ==
    /\ IndexDone
    /\ pfResult.kind = "Err"
    /\ Len(pfItems) = 2
    /\ pfItems[1].ok
    /\ DOMAIN pfIndex # {}
    /\ \E j \in 3..Len(Expected(pfBuf, pfKey)) :
           /\ ~Expected(pfBuf, pfKey)[j].ok
           /\ Expected(pfBuf, pfKey)[j].err # pfResult.err

\* every line parsed and the index holds two cells
C7_WitnessOk ==
    /\ IndexDone
    /\ pfResult.kind = "Ok"
    /\ Cardinality(DOMAIN pfIndex) = 2

\* C13: with_cell writes to the caller's writer only the first container
\* entry of the attempt that succeeded: when it returns an error the writer
\* is as it was handed in (empty), and when it returns Ok the writer holds
\* exactly the entry of the last attempt, whatever happened to a failed
\* attempt before it.
C13_NoTraceOfFailedAttempts ==
    Done =>
        /\ result.kind = "Err" => wtr = <<>>
        /\ result = ResOk => wtr = io.attempt[Len(attempts)].entry

(***************************************************************************)
(* Claims about the block decryption pass                                  *)
(***************************************************************************)
\* D(c_i): the i-th 8-byte block of d, decrypted
DecBlock(key, d, i) == decrypt_block(key, SubSeq(d, 8 * i - 7, 8 * i))

\* D(c_1) ++ ... ++ D(c_n)
RECURSIVE DecBlocks(_, _, _)
DecBlocks(key, d, n) ==
    IF n = 0 THEN <<>> ELSE DecBlocks(key, d, n - 1) \o DecBlock(key, d, n)

FullBlocks == Len(blockPass.data) >= 8 /\ Len(blockPass.data) % 8 = 0

\* a read of the pass returned k bytes, 0 < k < 8: the length is no
\* multiple of 8 and no earlier read failed
PartialRead ==
    /\ Len(blockPass.data) % 8 # 0
    /\ blockPass.failAt = 0 \/ blockPass.failAt > Len(blockPass.data) \div 8 + 1

\* C11: for a ciphertext of n >= 1 full blocks c1..cn read without error,
\* decrypt_into returns Ok and has written exactly
\* D(c1) ++ ... ++ D(c(n-1)) ++ depad(D(cn)), and nothing that is not a
\* decrypted block of the input.
C11_OneBlockDelay ==
    (blockPass.done /\ FullBlocks /\ blockPass.failAt = 0) =>
        /\ blockPass.res = "Ok"
        /\ blockPass.out = DecBlocks(blockPass.key, blockPass.data, Len(blockPass.data) \div 8 - 1)
                      \o depad(DecBlock(blockPass.key, blockPass.data, Len(blockPass.data) \div 8))

\* C12: whenever a read of the pass returns k bytes with 0 < k < 8,
\* decrypt_into returns the non-eight-read error, and never Ok.
C12_PartialBlockIsError ==
    (blockPass.done /\ PartialRead) => blockPass.res = "NonEightRead"

(***************************************************************************)
(* Specifications: one per component, the others idle.                     *)
(***************************************************************************)
NextDepad == Depad

InitSpecDepad == InitDepad /\ UpIdle /\ CellIdle /\ CpIdle /\ PfIdle /\ PassIdle

SpecDepad == InitSpecDepad /\ [][NextDepad]_vars

InitSpecUp == InitUp /\ DepadIdle /\ CellIdle /\ CpIdle /\ PfIdle /\ PassIdle

SpecUp == InitSpecUp /\ [][NextUp]_vars

InitSpecCell == InitCell /\ DepadIdle /\ UpIdle /\ CpIdle /\ PfIdle /\ PassIdle

SpecCell == InitSpecCell /\ [][NextCell]_vars

InitSpecCp == InitCp /\ DepadIdle /\ UpIdle /\ CellIdle /\ PfIdle /\ PassIdle

SpecCp == InitSpecCp /\ [][NextCp]_vars

InitSpecPf == InitPf /\ DepadIdle /\ UpIdle /\ CellIdle /\ CpIdle /\ PassIdle

SpecPf == InitSpecPf /\ [][NextPf]_vars

InitSpecPass == InitPass /\ DepadIdle /\ UpIdle /\ CellIdle /\ CpIdle /\ PfIdle

SpecPass == InitSpecPass /\ [][NextPass]_vars

====
